---- MODULE Spec2Model ----
(***************************************************************************)
(* punchclock.py: a command line punch clock.  One pickled file per clock  *)
(* holds a list of entries; an entry is a list of one datetime (clocked    *)
(* in) or two datetimes (clocked in, clocked out).                         *)
(*                                                                         *)
(* Time is counted in ticks.  A day has TicksPerDay ticks, a datetime is a *)
(* tick count t, its date is t \div TicksPerDay and its time of day is     *)
(* t % TicksPerDay.  time(0, 0, 0) is tick 0 of the day and                *)
(* time(23, 59, 59, 999_999) is the last tick of the day.  The system      *)
(* clock never goes backwards: every datetime.now() returns a t >= now.    *)
(*                                                                         *)
(* Each command word stands for both of its spellings ('in' | 'i', ...).   *)
(***************************************************************************)
EXTENDS Integers, Sequences, FiniteSets, TLC

VARIABLES
    store,      \* the punch clock files in PUNCHCLOCK_PATH: name -> pickled clock
    now,        \* the latest value datetime.now() has returned
    argv,       \* sys.argv of the latest invocation, after sys.argv.pop(0)
    answer,     \* what get_yes_no returned in the latest invocation
    out,        \* the lines the latest invocation printed (print and eprint)
    exitCode,   \* the exit status of the latest invocation that ended
    exc,        \* the exception that ended the latest invocation, or "none"
    frame,      \* the plot_dates call in progress, or NoFrame
    dct,        \* the dictionary get_date_dict built in the latest invocation
    rendered    \* what the latest invocation handed to plt.show(), or NoFigure

vars == <<store, now, argv, answer, out, exitCode, exc, frame, dct, rendered>>

----------------------------------------------------------------------------
(* Bounds of the model. *)

TicksPerDay == 3
\* the clock stops at MaxNow in the behaviours of Spec
MaxNow == 1
\* the entries the files may hold together in the behaviours of Spec
MaxEntries == 3
\* the interpreter's recursion limit
MaxDepth == 3
\* the days and entries of the clocks SpecQuery starts from
NumDays == 3
QuerySessions == 2

Names == {"a", "b"}
\* sorted(names)
NameOrder == <<"a", "b">>

----------------------------------------------------------------------------
(* datetime, date, time, timedelta *)

date(t) == t \div TicksPerDay
timeOfDay(t) == t % TicksPerDay
\* time(0, 0, 0)
time_min == 0
\* time(23, 59, 59, 999_999)
time_max == TicksPerDay - 1
\* (end - start).days: timedelta normalises with floor division
timedelta_days(end, start) == (end - start) \div TicksPerDay

Last(s) == s[Len(s)]

RECURSIVE SumLen(_, _)
SumLen(st, S) ==
    IF S = {} THEN 0
    ELSE LET n == CHOOSE x \in S : TRUE IN Len(st[n]) + SumLen(st, S \ {n})
\* the number of entries in all the files
Entries(st) == SumLen(st, DOMAIN st)

----------------------------------------------------------------------------
(* A dict keeps its keys in insertion order: a sequence of [key, times].   *)
(* Assigning to a key already present keeps the key's position.            *)

DictHas(d, k) == \E i \in 1..Len(d) : d[i].key = k
DictIdx(d, k) == CHOOSE i \in 1..Len(d) : d[i].key = k
\* dct.get(k)
DictGet(d, k) == IF DictHas(d, k) THEN d[DictIdx(d, k)].times ELSE <<>>
\* dct[k] = v
DictSet(d, k, v) ==
    IF DictHas(d, k)
    THEN [d EXCEPT ![DictIdx(d, k)].times = v]
    ELSE Append(d, [key |-> k, times |-> v])
\* if k not in dct: dct[k] = [val]   else: dct[k].append(val)
DictAdd(d, k, val) ==
    IF ~DictHas(d, k)
    THEN Append(d, [key |-> k, times |-> <<val>>])
    ELSE [d EXCEPT ![DictIdx(d, k)].times = Append(@, val)]
DictKeys(d) == {d[i].key : i \in 1..Len(d)}

----------------------------------------------------------------------------
(* The files. *)

clock_exists(st, name) == name \in DOMAIN st

set_punchclock(st, name, clock) ==
    [n \in (DOMAIN st) \cup {name} |-> IF n = name THEN clock ELSE st[n]]

remove(st, name) == [n \in (DOMAIN st) \ {name} |-> st[n]]

get_all_punchclocks(st) == SelectSeq(NameOrder, LAMBDA n : n \in DOMAIN st)

\* a line of output: its text, the names and the numbers formatted into it
Line(text, names, vals) == [text |-> text, names |-> names, vals |-> vals]

NoClockLine(name) == Line("No clock with name exists", <<name>>, <<>>)

----------------------------------------------------------------------------
(* get_date_dict *)

full_day == <<time_min, time_max>>

\* for i in range(diff): dct[s_date + timedelta(days=i + 1)] = [full_day[:]]
RECURSIVE FullDays(_, _, _, _)
FullDays(d, s_date, i, diff) ==
    IF i >= diff
    THEN d
    ELSE FullDays(DictSet(d, s_date + i + 1, <<full_day>>), s_date, i + 1, diff)

\* the body of the loop over the entries, for one entry
AddEntry(d, entry, t) ==
    LET start == entry[1]
        end == IF Len(entry) = 1 THEN t ELSE entry[2]
    IN  IF date(start) = date(end)
        THEN DictAdd(d, date(start), <<timeOfDay(start), timeOfDay(end)>>)
        ELSE LET s_date == date(start)
                 e_date == date(end)
                 d1 == DictAdd(d, s_date, <<timeOfDay(start), time_max>>)
                 diff == timedelta_days(end, start)
                 d2 == FullDays(d1, s_date, 0, diff)
             IN  DictAdd(d2, e_date, <<time_min, timeOfDay(end)>>)

\* for entry in reversed(clock): the entries from index i down to 1
RECURSIVE DateDictFrom(_, _, _, _)
DateDictFrom(d, clock, i, t) ==
    IF i = 0 THEN d ELSE DateDictFrom(AddEntry(d, clock[i], t), clock, i - 1, t)

get_date_dict(clock, t) == DateDictFrom(<<>>, clock, Len(clock), t)

----------------------------------------------------------------------------
(* calculate_total *)

\* for val in times: total += combine(key, end) - combine(key, start)
RECURSIVE SumTimes(_)
SumTimes(times) ==
    IF times = <<>> THEN 0
    ELSE (Head(times)[2] - Head(times)[1]) + SumTimes(Tail(times))

\* for key, times in reversed(dct.items()): the items from index i down to 1
RECURSIVE TotalFrom(_, _, _, _)
TotalFrom(d, i, since, total) ==
    IF i = 0 THEN total
    ELSE IF d[i].key < since THEN total
    ELSE TotalFrom(d, i - 1, since, total + SumTimes(d[i].times))

calculate_total(d, since) == TotalFrom(d, Len(d), since, 0)

----------------------------------------------------------------------------
(* plot_punchclock and plot_dates *)

max_days == 7

NoFrame == [name |-> "", start |-> 0, end |-> 0, skip_empty |-> FALSE, depth |-> 0]
NoFigure == [shown |-> FALSE, start |-> 0, end |-> 0, xticks |-> <<>>, fills |-> <<>>]

\* dates = sorted(keys); dates[-max_days] if len(dates) > max_days else dates[0]
PlotStart(d) ==
    LET K == DictKeys(d)
    IN  IF Cardinality(K) > max_days
        THEN CHOOSE k \in K : Cardinality({e \in K : e >= k}) = max_days
        ELSE CHOOSE k \in K : \A e \in K : k <= e
\* dates[-1]
PlotEnd(d) == CHOOSE k \in DictKeys(d) : \A e \in DictKeys(d) : e <= k

Fills(current_date, times) == [i \in 1..Len(times) |-> <<current_date, times[i][1], times[i][2]>>]

\* for current_date in [start + timedelta(i) for i in range(size)]
RECURSIVE PlotLoop(_, _, _, _, _)
PlotLoop(fig, d, current_date, end, skip_empty) ==
    IF current_date > end THEN fig
    ELSE LET times == DictGet(d, current_date)
         IN  IF times /= <<>>
             THEN PlotLoop([fig EXCEPT !.fills = @ \o Fills(current_date, times),
                                       !.xticks = Append(@, current_date)],
                           d, current_date + 1, end, skip_empty)
             ELSE IF skip_empty
             THEN PlotLoop(fig, d, current_date + 1, end, skip_empty)
             ELSE PlotLoop([fig EXCEPT !.xticks = Append(@, current_date)],
                           d, current_date + 1, end, skip_empty)

Figure(d, start, end, skip_empty) ==
    PlotLoop([shown |-> TRUE, start |-> start, end |-> end, xticks |-> <<>>, fills |-> <<>>],
             d, start, end, skip_empty)

----------------------------------------------------------------------------
(* clock_in, clock_out, show_current, delete_punchclock, get_running *)

\* what an invocation does: the files it leaves, the lines it prints, its exit
\* status and the exception that ended it
Effect(st, o, code, e) == [store |-> st, out |-> o, exit |-> code, exc |-> e]

\* exists_or_exit, when the clock does not exist
NotFound(st, name) == Effect(st, <<NoClockLine(name)>>, 1, "none")
\* an exception nothing catches: a traceback and exit status 1
Raised(st, o, e) == Effect(st, o, 1, e)

\* a new clock that starts with no entry
NewClockEmpty(t) == << >>
\* [[datetime.now()]]
NewClock(t) == << <<t>> >>

\* clock.append([datetime.now()])
AppendEntry(clock, t) == Append(clock, <<t>>)

\* clock[-1].append(datetime.now())
CloseLast(clock, t) == [clock EXCEPT ![Len(clock)] = Append(@, t)]

\* the test for an entry without its end left out
clock_in_branch_nocheck(last_entry_len) ==
    IF last_entry_len \in {1, 2} THEN "two"
    ELSE "ValueError"
\* clock_in: if last_entry_len == 1: ... elif last_entry_len == 2: ... else: raise
clock_in_branch(last_entry_len) ==
    IF last_entry_len = 1 THEN "one"
    ELSE IF last_entry_len = 2 THEN "two"
    ELSE "ValueError"

\* the first test taken as last_entry_len >= 1
clock_out_branch_atleast(last_entry_len) ==
    IF last_entry_len >= 1 THEN "one"
    ELSE IF last_entry_len = 2 THEN "two"
    ELSE "ValueError"
\* clock_out: if last_entry_len == 1: ... elif last_entry_len == 2: ... else: raise
clock_out_branch(last_entry_len) ==
    IF last_entry_len = 1 THEN "one"
    ELSE IF last_entry_len = 2 THEN "two"
    ELSE "ValueError"

\* show_current: if last_entry_len == 1: ... elif last_entry_len == 2: ... else: raise
show_current_branch(last_entry_len) ==
    IF last_entry_len = 1 THEN "one"
    ELSE IF last_entry_len = 2 THEN "two"
    ELSE "ValueError"

clock_in(st, name, yes, t) ==
    IF ~clock_exists(st, name)
    THEN Effect(IF yes THEN set_punchclock(st, name, NewClock(t)) ELSE st,
                <<Line("does not exist.", <<name>>, <<>>)>>, 0, "none")
    ELSE LET clock == st[name]
         IN  IF clock = <<>> THEN Raised(st, <<>>, "IndexError")
             ELSE LET last_entry_len == Len(Last(clock))
                  IN  IF clock_in_branch(last_entry_len) = "one"
                      THEN Effect(st, <<Line("You need to clock out before you clock back in",
                                             <<>>, <<>>)>>, 0, "none")
                      ELSE IF clock_in_branch(last_entry_len) = "two"
                      THEN Effect(set_punchclock(st, name, AppendEntry(clock, t)),
                                  <<Line("Clocked in!", <<>>, <<>>)>>, 0, "none")
                      ELSE Raised(st, <<>>, "ValueError")

clock_out(st, name, t) ==
    IF ~clock_exists(st, name) THEN NotFound(st, name)
    ELSE LET clock == st[name]
         IN  IF clock = <<>> THEN Raised(st, <<>>, "IndexError")
             ELSE LET last_entry_len == Len(Last(clock))
                      closed == CloseLast(clock, t)
                  IN  IF clock_out_branch(last_entry_len) = "one"
                      THEN Effect(set_punchclock(st, name, closed),
                                  <<Line("Clocked out!", <<>>, <<>>),
                                    Line("elapsed time:", <<>>,
                                         <<Last(closed)[2] - Last(closed)[1]>>)>>,
                                  0, "none")
                      ELSE IF clock_out_branch(last_entry_len) = "two"
                      THEN Effect(st, <<Line("You need to clock in before you clock back out",
                                             <<>>, <<>>)>>, 0, "none")
                      ELSE Raised(st, <<>>, "ValueError")

\* the entry always shown as running: its end is the current time
show_lines_now(entry, t) ==
    <<Line("started:", <<>>, <<entry[1]>>),
      Line("now:", <<>>, <<t>>),
      Line("elapsed time:", <<>>, <<t - entry[1]>>)>>
\* the three lines show_current prints for the entry
show_lines(entry, t) ==
    IF show_current_branch(Len(entry)) = "one"
    THEN <<Line("started:", <<>>, <<entry[1]>>),
           Line("now:", <<>>, <<t>>),
           Line("elapsed time:", <<>>, <<t - entry[1]>>)>>
    ELSE <<Line("started:", <<>>, <<entry[1]>>),
           Line("ended:", <<>>, <<entry[2]>>),
           Line("elapsed time:", <<>>, <<entry[2] - entry[1]>>)>>

show_current(st, name, t) ==
    IF ~clock_exists(st, name) THEN NotFound(st, name)
    ELSE LET clock == st[name]
         IN  IF clock = <<>> THEN Raised(st, <<>>, "IndexError")
             ELSE IF show_current_branch(Len(Last(clock))) = "ValueError"
             THEN Raised(st, <<>>, "ValueError")
             ELSE Effect(st, show_lines(Last(clock), t), 0, "none")

delete_punchclock(st, name) ==
    IF ~clock_exists(st, name) THEN NotFound(st, name)
    ELSE Effect(remove(st, name), <<>>, 0, "none")

get_running(st) ==
    SelectSeq(get_all_punchclocks(st), LAMBDA n : Len(Last(st[n])) = 1)

----------------------------------------------------------------------------
(* main: the command line *)

\* the text of a date argument: well formed and naming a day, or malformed
DateText(d) == [wellformed |-> TRUE, day |-> d]
Malformed == [wellformed |-> FALSE, day |-> 0]
DateTexts(days) == {DateText(d) : d \in days} \cup {Malformed}

\* parse_date raises ValueError on a malformed text
parse_ok(text) == text.wellformed
parse_date(text) == text.day

Argv(cmd, name, args) == [cmd |-> cmd, name |-> name, args |-> args]

ValueErrorLine == Line("ValueError", <<>>, <<>>)

Idle == frame = NoFrame

\* the clock has an entry without its end: get_date_dict calls datetime.now()
HasOpen(clock) == \E i \in 1..Len(clock) : Len(clock[i]) = 1
\* the invocation calls datetime.now(), which returns t; otherwise t is not read
Reads(cond, t) == cond \/ t = now

\* an invocation that runs to its end in one step
Invoke(a, yes, t, eff, d, fig) ==
    /\ Idle
    /\ argv' = a
    /\ answer' = yes
    /\ now' = t
    /\ store' = eff.store
    /\ out' = eff.out
    /\ exitCode' = <<eff.exit>>
    /\ exc' = eff.exc
    /\ dct' = d
    /\ rendered' = fig
    /\ frame' = NoFrame

Help(t) ==
    /\ Reads(FALSE, t)
    /\ Invoke(Argv("help", "", <<>>), FALSE, t,
              Effect(store, <<Line("clock", <<>>, <<>>)>>, 0, "none"), <<>>, NoFigure)

ClockIn(name, yes, t) ==
    /\ clock_exists(store, name) => ~yes
    /\ Reads(IF clock_exists(store, name) THEN ~HasOpen(store[name]) ELSE yes, t)
    /\ LET eff == clock_in(store, name, yes, t)
       IN  /\ Entries(eff.store) <= MaxEntries
           /\ Invoke(Argv("in", name, <<>>), yes, t, eff, <<>>, NoFigure)

ReadsFor(name, t) == Reads(clock_exists(store, name) /\ HasOpen(store[name]), t)

ClockOut(name, t) ==
    /\ ReadsFor(name, t)
    /\ Invoke(Argv("out", name, <<>>), FALSE, t, clock_out(store, name, t), <<>>, NoFigure)

ShowCurrent(name, t) ==
    /\ ReadsFor(name, t)
    /\ Invoke(Argv("show", name, <<>>), FALSE, t, show_current(store, name, t), <<>>, NoFigure)

Delete(name, t) ==
    /\ Reads(FALSE, t)
    /\ Invoke(Argv("delete", name, <<>>), FALSE, t, delete_punchclock(store, name),
              <<>>, NoFigure)

List(t) ==
    /\ Reads(FALSE, t)
    /\ Invoke(Argv("list", "", <<>>), FALSE, t,
              Effect(store, <<Line("list", get_all_punchclocks(store), <<>>)>>, 0, "none"),
              <<>>, NoFigure)

Running(t) ==
    /\ Reads(FALSE, t)
    /\ Invoke(Argv("running", "", <<>>), FALSE, t,
              IF \E n \in DOMAIN store : store[n] = <<>>
              THEN Raised(store, <<>>, "IndexError")
              ELSE Effect(store, <<Line("running", get_running(store), <<>>)>>, 0, "none"),
              <<>>, NoFigure)

Invalid(t) ==
    /\ Reads(FALSE, t)
    /\ Invoke(Argv("invalid", "", <<>>), FALSE, t,
              Effect(store, <<Line("ERROR: Invalid args, enter clock to show help",
                                   <<>>, <<>>)>>, 1, "none"),
              <<>>, NoFigure)

\* case ['total', name, since]
Total(name, since, t) ==
    LET a == Argv("total", name, <<since>>)
    IN  /\ Reads(parse_ok(since) /\ clock_exists(store, name) /\ HasOpen(store[name]), t)
        /\ IF ~parse_ok(since)
           THEN Invoke(a, FALSE, t, Effect(store, <<ValueErrorLine>>, 0, "none"),
                       <<>>, NoFigure)
           ELSE IF ~clock_exists(store, name)
           THEN Invoke(a, FALSE, t, NotFound(store, name), <<>>, NoFigure)
           ELSE LET d == get_date_dict(store[name], t)
                    total == calculate_total(d, parse_date(since))
                IN  Invoke(a, FALSE, t,
                           Effect(store,
                                  <<Line("Total time elapsed in since", <<name>>,
                                         <<parse_date(since), total>>)>>, 0, "none"),
                           d, NoFigure)

\* an invocation that enters plot_dates(name, start, end, ..., skip_empty)
Enter(a, t, d, start, end, skip_empty) ==
    /\ Idle
    /\ argv' = a
    /\ answer' = FALSE
    /\ now' = t
    /\ out' = <<>>
    /\ exitCode' = <<>>
    /\ exc' = "none"
    /\ dct' = d
    /\ rendered' = NoFigure
    /\ frame' = [name |-> a.name, start |-> start, end |-> end,
                 skip_empty |-> skip_empty, depth |-> 1]
    /\ UNCHANGED store

\* case ['plot-dates', name, start, end]
PlotDates(name, start, end, t) ==
    LET a == Argv("plot-dates", name, <<start, end>>)
    IN  /\ Reads(FALSE, t)
        /\ IF ~parse_ok(start) \/ ~parse_ok(end)
           THEN Invoke(a, FALSE, t, Effect(store, <<ValueErrorLine>>, 0, "none"),
                       <<>>, NoFigure)
           ELSE Enter(a, t, <<>>, parse_date(start), parse_date(end), FALSE)

\* case ['plot', name]: plot_punchclock up to its call of plot_dates
Plot(name, t) ==
    LET a == Argv("plot", name, <<>>)
    IN  /\ ReadsFor(name, t)
        /\ IF ~clock_exists(store, name)
           THEN Invoke(a, FALSE, t, NotFound(store, name), <<>>, NoFigure)
           ELSE LET d == get_date_dict(store[name], t)
                IN  IF d = <<>>
                    THEN Invoke(a, FALSE, t, Raised(store, <<>>, "IndexError"),
                                <<>>, NoFigure)
                    ELSE Enter(a, t, d, PlotStart(d), PlotEnd(d), TRUE)

\* the end of the invocation inside plot_dates
Leave(t, o, code, e, d, fig) ==
    /\ now' = t
    /\ out' = o
    /\ exitCode' = <<code>>
    /\ exc' = e
    /\ dct' = d
    /\ rendered' = fig
    /\ frame' = NoFrame
    /\ UNCHANGED <<store, argv, answer>>

\* plot_dates: exists_or_exit(name) exits
PlotDatesMissing(t) ==
    /\ ~Idle
    /\ Reads(FALSE, t)
    /\ ~clock_exists(store, frame.name)
    /\ Leave(t, <<NoClockLine(frame.name)>>, 1, "none", dct, NoFigure)

\* plot_dates: if start > end: plot_dates(name, start, end, time_format, date_format)
PlotDatesRecurse(t) ==
    /\ ~Idle
    /\ clock_exists(store, frame.name)
    /\ frame.start > frame.end
    /\ frame.depth < MaxDepth
    /\ Reads(FALSE, t)
    /\ frame' = [frame EXCEPT !.depth = @ + 1, !.skip_empty = FALSE]
    /\ now' = t
    /\ UNCHANGED <<store, argv, answer, out, exitCode, exc, dct, rendered>>

\* the call that exceeds the recursion limit raises RecursionError
PlotDatesOverflow(t) ==
    /\ ~Idle
    /\ clock_exists(store, frame.name)
    /\ frame.start > frame.end
    /\ frame.depth >= MaxDepth
    /\ Reads(FALSE, t)
    /\ Leave(t, <<>>, 1, "RecursionError", dct, NoFigure)

\* plot_dates from start_date_str on, to plt.show()
PlotDatesRender(t) ==
    /\ ~Idle
    /\ clock_exists(store, frame.name)
    /\ frame.start <= frame.end
    /\ Reads(HasOpen(store[frame.name]), t)
    /\ LET d == get_date_dict(store[frame.name], t)
       IN  Leave(t, <<>>, 0, "none", d,
                 Figure(d, frame.start, frame.end, frame.skip_empty))

----------------------------------------------------------------------------
(* The program from an empty directory. *)

Init ==
    /\ store = << >>
    /\ now = 0
    /\ argv = Argv("help", "", <<>>)
    /\ answer = FALSE
    /\ out = <<>>
    /\ exitCode = <<>>
    /\ exc = "none"
    /\ frame = NoFrame
    /\ dct = <<>>
    /\ rendered = NoFigure

\* the date arguments: the days the clock reaches, the day after, and a malformed text
ArgDates == DateTexts(0..(date(MaxNow) + 1))

\* the times datetime.now() may return
Clock == now..MaxNow

Next ==
    \/ \E t \in Clock : Help(t)
    \/ \E t \in Clock, name \in Names, yes \in BOOLEAN : ClockIn(name, yes, t)
    \/ \E t \in Clock, name \in Names : ClockOut(name, t)
    \/ \E t \in Clock, name \in Names : ShowCurrent(name, t)
    \/ \E t \in Clock, name \in Names : Delete(name, t)
    \/ \E t \in Clock, name \in Names : Plot(name, t)
    \/ \E t \in Clock, name \in Names, start \in ArgDates, end \in ArgDates :
          PlotDates(name, start, end, t)
    \/ \E t \in Clock, name \in Names, since \in ArgDates : Total(name, since, t)
    \/ \E t \in Clock : List(t)
    \/ \E t \in Clock : Running(t)
    \/ \E t \in Clock : Invalid(t)
    \/ \E t \in Clock : PlotDatesMissing(t)
    \/ \E t \in Clock : PlotDatesRecurse(t)
    \/ \E t \in Clock : PlotDatesOverflow(t)
    \/ \E t \in Clock : PlotDatesRender(t)

Spec == Init /\ [][Next]_vars

----------------------------------------------------------------------------
(* The queries on a clock that clock_in and clock_out have written: the    *)
(* times of its entries never decrease, and all but the last have an end.  *)

QueryMaxTime == NumDays * TicksPerDay - 1
\* the entries clock_in and clock_out can write from time `from` on
QueryEntries(from) ==
    {<<s>> : s \in from..QueryMaxTime}
        \cup UNION {{<<s, e>> : e \in s..QueryMaxTime} : s \in from..QueryMaxTime}

\* the clocks of n entries: clock_in appends an entry only after a closed one
RECURSIVE ClocksOfLen(_)
ClocksOfLen(n) ==
    IF n = 1
    THEN {<<entry>> : entry \in QueryEntries(0)}
    ELSE UNION {{Append(clock, entry) : entry \in QueryEntries(Last(clock)[2])} :
                    clock \in {c \in ClocksOfLen(n - 1) : Len(Last(c)) = 2}}

\* the clocks of at most max entries
QueryClocks(max) == UNION {ClocksOfLen(n) : n \in 1..max}

InitQuery ==
    /\ \E clock \in QueryClocks(QuerySessions) :
          /\ store = [n \in {"a"} |-> clock]
          /\ now = Last(clock)[Len(Last(clock))]
    /\ argv = Argv("help", "", <<>>)
    /\ answer = FALSE
    /\ out = <<>>
    /\ exitCode = <<>>
    /\ exc = "none"
    /\ frame = NoFrame
    /\ dct = <<>>
    /\ rendered = NoFigure

\* the times datetime.now() may return
QueryClock == now..QueryMaxTime

NextQuery ==
    \/ \E t \in QueryClock, since \in 0..(NumDays - 1) : Total("a", DateText(since), t)
    \/ \E t \in QueryClock : Plot("a", t)
    \/ \E t \in QueryClock : PlotDatesRender(t)

SpecQuery == InitQuery /\ [][NextQuery]_vars

----------------------------------------------------------------------------
(* Properties of the stored clocks, under Spec. *)

Closed(entry) == Len(entry) = 2
Open(entry) == Len(entry) = 1

\* C1: in every stored clock every entry but the last is closed (has two
\* timestamps); only the last entry may be open.
C1_OnlyLastOpen ==
    \A n \in DOMAIN store :
        \A i \in 1..(Len(store[n]) - 1) : Closed(store[n][i])

\* a clock with a closed entry followed by an open one, while another clock exists
C1_Witness ==
    \E n \in DOMAIN store :
        /\ Len(store[n]) >= 2
        /\ Closed(store[n][1])
        /\ Open(Last(store[n]))
        /\ DOMAIN store /= {n}

\* the step is an invocation of cmd on a clock that exists, with a last entry
\* of len timestamps
StepOn(cmd, len) ==
    /\ argv'.cmd = cmd
    /\ clock_exists(store, argv'.name)
    /\ store[argv'.name] /= <<>>
    /\ Len(Last(store[argv'.name])) = len

\* C2: clock_out on an open clock closes the last entry in place: the clock keeps
\* its length, its earlier entries and the start of the last entry, and the end
\* is not before the start; show_current on a closed clock prints exactly the
\* stored start and end and their difference, and leaves the files unchanged.
C2_ClockOutThenShow ==
    [][ /\ StepOn("out", 1) =>
            LET old == store[argv'.name]
                new == store'[argv'.name]
            IN  /\ argv'.name \in DOMAIN store'
                /\ Len(new) = Len(old)
                /\ \A i \in 1..(Len(old) - 1) : new[i] = old[i]
                /\ Closed(Last(new))
                /\ Last(new)[1] = Last(old)[1]
                /\ Last(new)[2] >= Last(new)[1]
                /\ \A n \in DOMAIN store \ {argv'.name} :
                      n \in DOMAIN store' /\ store'[n] = store[n]
        /\ StepOn("show", 2) =>
            LET entry == Last(store[argv'.name])
            IN  /\ store' = store
                /\ out' = <<Line("started:", <<>>, <<entry[1]>>),
                            Line("ended:", <<>>, <<entry[2]>>),
                            Line("elapsed time:", <<>>, <<entry[2] - entry[1]>>)>>
      ]_vars

\* show_current after the second clock_in and clock_out of a clock, with time
\* having passed between them
C2_Witness ==
    /\ argv.cmd = "show"
    /\ exitCode = <<0>>
    /\ Len(store[argv.name]) >= 2
    /\ Closed(Last(store[argv.name]))
    /\ Last(store[argv.name])[2] > Last(store[argv.name])[1]
    /\ Len(out) = 3
    /\ out[2] = Line("ended:", <<>>, <<Last(store[argv.name])[2]>>)

\* C3: clock_in on a clock whose last entry is open and clock_out on a clock
\* whose last entry is closed leave every file exactly as it was, so the clock
\* is in the same state when the command is repeated.
C3_ConflictChangesNothing ==
    [][ (StepOn("in", 1) \/ StepOn("out", 2)) => store' = store ]_vars

\* a refused clock_in while the other clock exists too
C3_Witness ==
    /\ argv.cmd = "in"
    /\ out = <<Line("You need to clock out before you clock back in", <<>>, <<>>)>>
    /\ DOMAIN store = Names
    /\ Open(Last(store[argv.name]))

\* C9: every stored clock has at least one entry and every entry has one or two
\* timestamps; no invocation ends in the ValueError of the length test or in an
\* IndexError of clock[-1].
C9_ClocksWellFormed ==
    /\ \A n \in DOMAIN store :
          /\ store[n] /= <<>>
          /\ \A i \in 1..Len(store[n]) : Len(store[n][i]) \in {1, 2}
    /\ exc \notin {"ValueError", "IndexError"}

\* a successful clock_in that read the last entry of an existing clock
C9_Witness ==
    /\ argv.cmd = "in"
    /\ out = <<Line("Clocked in!", <<>>, <<>>)>>
    /\ Len(store[argv.name]) = 2
    /\ exitCode = <<0>>

----------------------------------------------------------------------------
(* The exit status and plot_dates, under Spec. *)

MalformedArgs(a) == \E i \in 1..Len(a.args) : ~a.args[i].wellformed

\* the exit status the command line interface documents
ExpectedExit(a, st) ==
    IF \/ a.cmd = "invalid"
       \/ /\ a.cmd \in {"out", "show", "delete", "plot", "plot-dates", "total"}
          /\ ~clock_exists(st, a.name)
       \/ /\ a.cmd \in {"plot-dates", "total"}
          /\ MalformedArgs(a)
    THEN 1 ELSE 0

\* C6: an invocation ends with exit status 1 when the command line is not
\* recognised, when the clock it names is missing or when a date argument is
\* malformed, and with 0 otherwise; a malformed date prints an error, plots
\* nothing, prints no total and leaves the files unchanged.
C6_ExitStatus ==
    [][ (Idle' /\ exitCode' /= <<>>) =>
            /\ exitCode' = <<ExpectedExit(argv', store)>>
            /\ (argv'.cmd \in {"plot-dates", "total"} /\ MalformedArgs(argv')) =>
                  /\ out' = <<ValueErrorLine>>
                  /\ rendered' = NoFigure
                  /\ store' = store
      ]_vars

\* C10: plot_dates on an existing clock with well-formed dates ends by
\* reaching plt.show() and returning, also when start > end.
C10_PlotDatesRenders ==
    (/\ Idle
     /\ argv.cmd = "plot-dates"
     /\ ~MalformedArgs(argv)
     /\ clock_exists(store, argv.name))
        => (rendered.shown /\ exc = "none")

----------------------------------------------------------------------------
(* get_date_dict and calculate_total, under SpecQuery. *)

\* the clock the latest invocation built its dictionary from
Queried == store[argv.name]
\* the end get_date_dict gave the entry: datetime.now() for an open entry
EndOf(entry) == IF Open(entry) THEN now ELSE entry[2]
Items(seq) == {seq[i] : i \in 1..Len(seq)}

\* the part of the session from start to end that falls on day d
Piece(start, end, d) ==
    << IF d = date(start) THEN timeOfDay(start) ELSE time_min,
       IF d = date(end) THEN timeOfDay(end) ELSE time_max >>

\* C4: for a clock with one closed session whose start and end are on different
\* dates the dictionary has exactly the dates from the start's to the end's,
\* each with exactly one interval: the part of the session on that day.
C4_MultiDayBuckets ==
    (/\ dct /= <<>>
     /\ Len(Queried) = 1
     /\ Closed(Queried[1])
     /\ date(Queried[1][1]) < date(Queried[1][2]))
        => LET start == Queried[1][1]
               end == Queried[1][2]
           IN  /\ DictKeys(dct) = date(start)..date(end)
               /\ Len(dct) = Cardinality(DictKeys(dct))
               /\ \A d \in DictKeys(dct) : DictGet(dct, d) = <<Piece(start, end, d)>>

\* the total the latest invocation printed
PrintedTotal == out[1].vals[2]
PrintedSince == out[1].vals[1]
TotalPrinted == Idle /\ argv.cmd = "total" /\ exitCode = <<0>> /\ out /= <<>>

\* C5: for one closed session from day D to day D + 2 and since = D + 1 the
\* total is the full day D + 1 plus the part of day D + 2 up to the end, and
\* nothing of day D.
C5_TotalSinceSecondDay ==
    (/\ TotalPrinted
     /\ Len(Queried) = 1
     /\ Closed(Queried[1])
     /\ date(Queried[1][2]) = date(Queried[1][1]) + 2
     /\ PrintedSince = date(Queried[1][1]) + 1)
        => PrintedTotal = (time_max - time_min) + (timeOfDay(Queried[1][2]) - time_min)

\* the sum of end - start over the intervals of the dates >= since
RECURSIVE SumSince(_, _, _)
SumSince(d, i, since) ==
    IF i = 0 THEN 0
    ELSE (IF d[i].key >= since THEN SumTimes(d[i].times) ELSE 0) + SumSince(d, i - 1, since)

\* C7: calculate_total walks the dates of the dictionary in non-increasing
\* order, and its result is the sum of end - start over all intervals of all
\* dates >= since.
C7_TotalSumsAllSince ==
    TotalPrinted =>
        /\ \A i \in 1..Len(dct) : \A j \in i..Len(dct) : dct[i].key <= dct[j].key
        /\ PrintedTotal = SumSince(dct, Len(dct), PrintedSince)

\* C8: for every session of the clock and every date the session touches, the
\* dictionary's list for that date holds the session's interval on that date.
C8_NoSessionLost ==
    dct /= <<>> =>
        \A i \in 1..Len(Queried) :
            LET start == Queried[i][1]
                end == EndOf(Queried[i])
            IN  \A d \in date(start)..date(end) :
                    Piece(start, end, d) \in Items(DictGet(dct, d))

====
